---- MODULE Spec2Model ----
(***************************************************************************)
(* A model of the wascc-actor guest library: the inbound entry point that  *)
(* actor_handlers! generates (src/src/lib.rs), the logging host binding    *)
(* with its process-wide CURRENT_BINDING (src/src/logger.rs), the object   *)
(* store host binding (src/src/objectstore.rs) and the error kinds they    *)
(* report through (src/src/errors.rs).                                     *)
(*                                                                         *)
(* The host, the codec (wascc_codec::serialize / deserialize) and the user *)
(* handlers are the environment: their outcomes are inputs of the actions. *)
(***************************************************************************)
EXTENDS Integers, Sequences, FiniteSets, TLC

VARIABLES
    table,            \* the arms of the match in handle_wapc, in macro order
    dispatches,       \* number of handle_wapc invocations so far
    ctxCreated,       \* number of CapabilitiesContext::new() calls so far
    lastDispatch,     \* the most recent handle_wapc invocation
    CURRENT_BINDING,  \* logger.rs: the String inside the RwLock
    readers,          \* logger.rs: read guards of the RwLock currently held
    recentSwitch,     \* history: argument of the most recent set_binding
    pendingLog,       \* the log call blocked in host_call, or NoCall; `reentry`
                      \* tells how a switch attempted meanwhile ended
    logWire,          \* transport calls issued by the most recent log call
    lastLog,          \* the most recent log call that has returned
    objs,             \* object store facade instances: the `binding` field
    ctorArg,          \* history: how each instance was constructed
    storeWire,        \* transport calls issued by the last object store call
    lastStore         \* the most recent object store facade invocation

vars == <<table, dispatches, ctxCreated, lastDispatch,
          CURRENT_BINDING, readers, recentSwitch, pendingLog, logWire, lastLog,
          objs, ctorArg, storeWire, lastStore>>

dispatchVars == <<table, dispatches, ctxCreated, lastDispatch>>
loggerVars == <<CURRENT_BINDING, readers, recentSwitch, pendingLog, logWire, lastLog>>
storeVars == <<objs, ctorArg, storeWire, lastStore>>

(***************************************************************************)
(* Bounds of the model.                                                    *)
(***************************************************************************)
MaxRegs == 3        \* arms written in one actor_handlers! invocation
MaxDispatch == 2    \* inbound invocations explored
MaxChunk == 3       \* chunk sizes 0..MaxChunk
MaxTotal == 10      \* total sizes 0..MaxTotal

(***************************************************************************)
(* The codec (wascc_codec::serialize / deserialize), an external           *)
(* collaborator: a value is written as a tag naming its type followed by   *)
(* its fields, and reading back checks the tag and the number of fields.   *)
(***************************************************************************)
Arity(type) ==
    CASE type = "Container" -> 1
      [] type = "Blob" -> 3
      [] type = "BlobList" -> 1
      [] type = "FileChunk" -> 6
      [] type = "StreamRequest" -> 3
      [] type = "Transfer" -> 5
      [] type = "WriteLogRequest" -> 2
      [] type = "Request" -> 1
      [] OTHER -> 0

\* serialize(item): the bytes of `fields` written as a value of `type`
serialize(type, fields) == <<type>> \o fields

\* deserialize::<type>(bytes): ok with the fields, or a decode failure
deserialize(type, bytes) ==
    IF Len(bytes) = Arity(type) + 1 /\ Arity(type) > 0 /\ bytes[1] = type
    THEN [ok |-> TRUE, val |-> Tail(bytes)]
    ELSE [ok |-> FALSE, val |-> <<>>]

\* a payload no deserialize call accepts
Corrupt == <<"\\xc1">>

(***************************************************************************)
(* Results. Every result is a record [tag, kind, bytes, name]:             *)
(*   tag   "Ok" | "Err" | "Panic"                                          *)
(*   kind  for Err, the ErrorKind variant of errors.rs (or, at the entry   *)
(*         point whose error type is Box<dyn Error>, what was boxed)       *)
(*   name  the String an error carries                                     *)
(***************************************************************************)
OkBytes(b) == [tag |-> "Ok", kind |-> "Bytes", bytes |-> b, name |-> ""]
ErrOf(k, n) == [tag |-> "Err", kind |-> k, bytes |-> <<>>, name |-> n]

(***************************************************************************)
(* Inbound dispatch: actor_handlers! (lib.rs 59-73).                       *)
(***************************************************************************)
Ops == {"OpA", "OpB", "OpC"}
Unregistered == "OpX"

\* the i-th arm of an invocation names its own handler function
HandlerName(i) ==
    CASE i = 1 -> "h1" [] i = 2 -> "h2" [] i = 3 -> "h3" [] OTHER -> "h4"

\* what a user handler may return: ReceiveResult = Result<Vec<u8>, Box<dyn Error>>
HandlerReturns == {OkBytes(<<>>), OkBytes(<<7>>), ErrOf("HandlerError", "boom")}

\* the payloads the host may push: a request that decodes, and one that does not
Msgs == {serialize("Request", <<1>>), Corrupt}

\* all sequences over S of length 0..n
RECURSIVE SeqsUpTo(_, _)
SeqsUpTo(S, n) ==
    IF n = 0 THEN {<<>>}
    ELSE LET shorter == SeqsUpTo(S, n - 1)
         IN shorter \cup {Append(s, x) : s \in {t \in shorter : Len(t) = n - 1}, x \in S}

\* the arms of one actor_handlers!{ k1 => h1, k2 => h2, ... } invocation
ArmsOf(keys) == [i \in 1..Len(keys) |-> [op |-> keys[i], handler |-> HandlerName(i)]]
Tables == {ArmsOf(keys) : keys \in SeqsUpTo(Ops, MaxRegs)}

NoDispatch == [op |-> "", msg |-> <<>>, ctx |-> 0, invoked |-> <<>>, result |-> ErrOf("None", "")]

\* `match operation { k1 => .., k2 => .., _ => .. }`: the arms are tried top to
\* bottom; the index of the arm taken, 0 for the wildcard arm
RECURSIVE MatchArm(_, _, _)
MatchArmLast(arms, operation, i) ==
    LET hits == {j \in i..Len(arms) : arms[j].op = operation}
    IN IF hits = {} THEN 0 ELSE CHOOSE j \in hits : \A k \in hits : k <= j
MatchArm(arms, operation, i) ==
    IF i > Len(arms) THEN 0
    ELSE IF arms[i].op = operation THEN i
    ELSE MatchArm(arms, operation, i + 1)

\* `.map_err(|e| e.into())` on the handler's ReceiveResult
MapErrDrop(ret) == OkBytes(ret.bytes)
MapErrInto(ret) == ret

\* the wildcard arm: Err("bad dispatch".into()), a boxed string
BadDispatchArm(operation) == ErrOf("BoxedStr", "bad dispatch")

\* one arm: $user_handler(&ctx, deserialize(msg)?).map_err(|e| e.into())
\* gives <<handlers invoked, result>>
RunArmUndecoded(arm, msg, ret) ==
    << <<[handler |-> arm.handler, ret |-> ret]>>, MapErrInto(ret) >>
RunArm(arm, msg, ret) ==
    LET req == deserialize("Request", msg)
    IN IF ~req.ok
       THEN << <<>>, ErrOf("DecodeError", "") >>
       ELSE << <<[handler |-> arm.handler, ret |-> ret]>>, MapErrInto(ret) >>

\* fn handle_wapc(operation, msg) -> CallResult
HandleWapc(operation, msg, ret) ==
    /\ pendingLog.api = "none"       \* the guest is not blocked in host_call
    /\ dispatches < MaxDispatch
    /\ dispatches' = dispatches + 1
    /\ ctxCreated' = ctxCreated + 1
    /\ LET i == MatchArm(table, operation, 1)
           out == IF i = 0 THEN << <<>>, BadDispatchArm(operation) >>
                  ELSE RunArm(table[i], msg, ret)
       IN lastDispatch' = [op |-> operation, msg |-> msg, ctx |-> ctxCreated',
                           invoked |-> out[1], result |-> out[2]]
    /\ UNCHANGED <<table, loggerVars, storeVars>>

(***************************************************************************)
(* The transport primitive wapc_guest::host_call(binding, ns, op, msg):    *)
(* the call as the host sees it, and the host's reply.                     *)
(***************************************************************************)
HostCall(binding, capid, op, msg) ==
    [binding |-> binding, capid |-> capid, op |-> op, msg |-> msg]

ReplyOk(bytes) == [ok |-> TRUE, bytes |-> bytes]
ReplyErr == [ok |-> FALSE, bytes |-> <<>>]

(***************************************************************************)
(* Logging: logger.rs.                                                     *)
(***************************************************************************)
CAPID_LOGGING == "wascc:logging"
OP_LOG == "WriteLog"

ERROR == 1
WARN == 2
INFO == 3
DEBUG == 4
TRACE == 5

DefaultBinding == "default"
NamedBindings == {"b1", "b2"}

\* the entry points that write a log entry: the six methods of
\* AutomaticLoggerHostBinding and log::Log::log, which the log macros reach
LogApis == {"log", "error", "warn", "info", "debug", "trace", "macro"}

\* the level each entry point puts in its WriteLogRequest
LevelsOf(api) ==
    CASE api = "error" -> {ERROR}
      [] api = "warn" -> {WARN}
      [] api = "info" -> {INFO}
      [] api = "debug" -> {DEBUG}
      [] api = "trace" -> {TRACE}
      [] OTHER -> ERROR..TRACE

NoCall == [api |-> "none", binding |-> "", level |-> 0, reentry |-> "none"]
NoLog == [api |-> "none", binding |-> "", sent |-> FALSE, reply |-> ReplyErr,
          result |-> ErrOf("None", "")]

OkUnit == [tag |-> "Ok", kind |-> "Unit", bytes |-> <<>>, name |-> ""]
Panic(what) == [tag |-> "Panic", kind |-> what, bytes |-> <<>>, name |-> ""]

\* fn set_binding(binding): *CURRENT_BINDING.write().unwrap() = binding.to_string()
\* the value stored, given the value it replaces
set_binding_once(current, binding) ==
    IF current = DefaultBinding THEN binding ELSE current
set_binding(current, binding) == binding

\* CURRENT_BINDING.write(): the write lock is granted only while no read guard
\* is held
WriteLockIgnoresReaders(held) == TRUE
WriteLockFree(held) == held = 0

\* what write() does on the thread that holds a read guard: std::sync::RwLock
\* leaves it open whether the call blocks for ever or panics
WriteWhileReading == {"deadlock", "panic"}

SwitchBinding(binding) ==
    /\ pendingLog.api = "none"
    /\ WriteLockFree(readers)
    /\ CURRENT_BINDING' = set_binding(CURRENT_BINDING, binding)
    /\ recentSwitch' = binding
    /\ UNCHANGED <<readers, pendingLog, logWire, lastLog, dispatchVars, storeVars>>

\* pub fn host(binding: &str)
LoggerHost(binding) == SwitchBinding(binding)

\* pub fn default()
LoggerDefault == SwitchBinding(DefaultBinding)

\* what a log call returns when serialize fails: `serialize(l)?` in the six
\* methods hands the codec's boxed error on unchanged, since HandlerResult's
\* error type is Box<dyn Error> and no ErrorKind is built; in _log
\* `serialize(req).unwrap()` panics
EncodeFailure(api) ==
    IF api = "macro" THEN Panic("unwrap") ELSE ErrOf("BoxedCodecError", "serialize")

\* what a log call returns once host_call has returned: `let _ = host_call(..)`
\* then Ok(()) in the six methods, () in _log
LogResult(api, reply) == OkUnit

\* the binding a log call passes to host_call: &CURRENT_BINDING.read().unwrap()
ReadBinding(current) == current

\* a log call up to the point where it blocks in host_call. The arguments of
\* host_call are evaluated first: the read guard is taken, then the request is
\* serialized; the guard lives until the statement ends.
LogIssue(api, level, encOk) ==
    /\ pendingLog.api = "none"
    /\ level \in LevelsOf(api)
    /\ LET b == ReadBinding(CURRENT_BINDING)
       IN IF encOk
          THEN /\ readers' = readers + 1
               /\ logWire' = <<HostCall(b, CAPID_LOGGING, OP_LOG,
                                        serialize("WriteLogRequest", <<level, "body">>))>>
               /\ pendingLog' = [api |-> api, binding |-> b, level |-> level,
                                 reentry |-> "none"]
               /\ UNCHANGED lastLog
          ELSE /\ logWire' = <<>>
               /\ lastLog' = [api |-> api, binding |-> b, sent |-> FALSE,
                              reply |-> ReplyErr, result |-> EncodeFailure(api)]
               /\ UNCHANGED <<readers, pendingLog>>
    /\ UNCHANGED <<CURRENT_BINDING, recentSwitch, dispatchVars, storeVars>>

\* set_binding called by handler logic the host runs in the guest while a log
\* call is blocked in host_call: the log call's read guard is still held
ReentrantSwitch(binding, outcome) ==
    /\ pendingLog.api # "none"
    /\ pendingLog.reentry # "deadlock"
    /\ IF WriteLockFree(readers)
       THEN /\ CURRENT_BINDING' = set_binding(CURRENT_BINDING, binding)
            /\ recentSwitch' = binding
            /\ UNCHANGED pendingLog
       ELSE /\ pendingLog' = [pendingLog EXCEPT !.reentry = outcome]
            /\ UNCHANGED <<CURRENT_BINDING, recentSwitch>>
    /\ UNCHANGED <<readers, logWire, lastLog, dispatchVars, storeVars>>

\* host_call returns: the guard is dropped and the log call returns
LogReturn(reply) ==
    /\ pendingLog.api # "none"
    /\ pendingLog.reentry # "deadlock"
    /\ readers' = readers - 1
    /\ lastLog' = [api |-> pendingLog.api, binding |-> pendingLog.binding, sent |-> TRUE,
                   reply |-> reply, result |-> LogResult(pendingLog.api, reply)]
    /\ pendingLog' = NoCall
    /\ UNCHANGED <<CURRENT_BINDING, recentSwitch, logWire, dispatchVars, storeVars>>

(***************************************************************************)
(* Object store: objectstore.rs.                                           *)
(***************************************************************************)
CAPID_BLOBSTORE == "wascc:blobstore"
OP_CREATE_CONTAINER == "CreateContainer"
OP_REMOVE_CONTAINER == "RemoveContainer"
OP_REMOVE_OBJECT == "RemoveObject"
OP_LIST_OBJECTS == "ListObjects"
OP_GET_OBJECT_INFO == "GetObjectInfo"
OP_START_UPLOAD == "StartUpload"
OP_UPLOAD_CHUNK == "UploadChunk"
OP_START_DOWNLOAD == "StartDownload"

\* the facade instances the actor may hold, and the names it may bind them to
Insts == {"s1", "s2"}
StoreBindings == {DefaultBinding, "b1"}
NoInst == "(none)"

Containers == {"c1"}
ObjectIds == {"obj"}
ChunkSizes == 0..MaxChunk
TotalSizes == 0..MaxTotal

\* a Blob { id, container, byte_size } and a Transfer, as the facade holds them
Blob(id, container, byte_size) == [id |-> id, container |-> container, byte_size |-> byte_size]
Transfer(blob_id, container, chunk_size, total_size, total_chunks) ==
    [blob_id |-> blob_id, container |-> container, chunk_size |-> chunk_size,
     total_size |-> total_size, total_chunks |-> total_chunks]

\* results of the facade: crate::Result<T>
StoreOk(kind, val) == [tag |-> "Ok", kind |-> kind, val |-> val]
StoreErr(kind) == [tag |-> "Err", kind |-> kind, val |-> <<>>]
StorePanic(what) == [tag |-> "Panic", kind |-> what, val |-> <<>>]

\* errors.rs: the From impls `?` and `.map_err(|e| e.into())` go through
FromWapcError == StoreErr("WapcError")          \* From<wapc::errors::Error>
FromJsonError == StoreErr("JsonMarshaling")     \* From<serde_json::Error>
FromBoxedError == StoreErr("MiscError")         \* From<Box<dyn Error>>

\* what the host may answer to an operation whose response is decoded
DecodedReplies ==
    {ReplyErr, ReplyOk(Corrupt),
     ReplyOk(serialize("Container", <<"c1">>)),
     ReplyOk(serialize("Blob", <<"", "", 0>>)),
     ReplyOk(serialize("Blob", <<"obj", "c1", 5>>)),
     ReplyOk(serialize("BlobList", << <<>> >>)),
     ReplyOk(serialize("BlobList", << << <<"obj", "c1", 5>> >> >>))}

\* what the host may answer to an operation whose response is dropped
DroppedReplies == {ReplyErr, ReplyOk(<<>>)}

\* what the host may answer to start_upload: as above, or the Transfer the
\* provider settled on, here with a chunk size of its own choosing
ProviderChunkSize == 1
StartReplies ==
    DroppedReplies \cup
        {ReplyOk(serialize("Transfer", <<"obj", "c1", ProviderChunkSize, MaxTotal, MaxTotal>>))}

\* host_call(&self.binding, CAPID_BLOBSTORE, op, &serialize(cmd)?): the calls
\* issued, none when serialize fails and `?` returns
IssueDefault(binding, op, type, fields, encOk) ==
    IF encOk
    THEN <<HostCall(DefaultBinding, CAPID_BLOBSTORE, op, serialize(type, fields))>>
    ELSE <<>>
Issue(binding, op, type, fields, encOk) ==
    IF encOk
    THEN <<HostCall(binding, CAPID_BLOBSTORE, op, serialize(type, fields))>>
    ELSE <<>>

\* `.map(|v| deserialize::<T>(v.as_ref()).unwrap())`
DecodeUnwrap(type, bytes) ==
    LET d == deserialize(type, bytes)
    IN IF d.ok THEN StoreOk(type, d.val) ELSE StorePanic("unwrap")

\* each operation gives <<transport calls issued, result>>

\* pub fn create_container(&self, name)
create_container(binding, name, encOk, reply) ==
    << Issue(binding, OP_CREATE_CONTAINER, "Container", <<name>>, encOk),
       IF ~encOk THEN FromBoxedError
       ELSE IF reply.ok THEN DecodeUnwrap("Container", reply.bytes)
       ELSE FromWapcError >>

\* pub fn remove_container(&self, name)
remove_container(binding, name, encOk, reply) ==
    << Issue(binding, OP_REMOVE_CONTAINER, "Container", <<name>>, encOk),
       IF ~encOk THEN FromBoxedError
       ELSE IF reply.ok THEN StoreOk("Unit", <<>>)
       ELSE FromWapcError >>

\* pub fn remove_object(&self, name, container)
remove_object(binding, name, container, encOk, reply) ==
    << Issue(binding, OP_REMOVE_OBJECT, "Blob", <<name, container, 0>>, encOk),
       IF ~encOk THEN FromBoxedError
       ELSE IF reply.ok THEN StoreOk("Unit", <<>>)
       ELSE FromWapcError >>

\* pub fn list_objects(&self, container)
list_objects(binding, container, encOk, reply) ==
    << Issue(binding, OP_LIST_OBJECTS, "Container", <<container>>, encOk),
       IF ~encOk THEN FromBoxedError
       ELSE IF reply.ok THEN DecodeUnwrap("BlobList", reply.bytes)
       ELSE FromWapcError >>

\* the closure of get_blob_info: None for an empty id, Some(b) otherwise
BlobOptionAlwaysSome(bytes) ==
    LET d == deserialize("Blob", bytes)
    IN IF ~d.ok THEN StorePanic("unwrap") ELSE StoreOk("Some", d.val)
BlobOption(bytes) ==
    LET d == deserialize("Blob", bytes)
    IN IF ~d.ok THEN StorePanic("unwrap")
       ELSE IF d.val[1] = "" THEN StoreOk("None", <<>>)
       ELSE StoreOk("Some", d.val)

\* pub fn get_blob_info(&self, container, id)
get_blob_info(binding, container, id, encOk, reply) ==
    << Issue(binding, OP_GET_OBJECT_INFO, "Blob", <<id, container, 0>>, encOk),
       IF ~encOk THEN FromBoxedError
       ELSE IF reply.ok THEN BlobOption(reply.bytes)
       ELSE FromWapcError >>

\* u64 `/`: -1 stands for the division-by-zero panic
DivCeil(a, b) == IF b = 0 THEN -1 ELSE (a + b - 1) \div b
DivZeroIsZero(a, b) == IF b = 0 THEN 0 ELSE a \div b
Div(a, b) == IF b = 0 THEN -1 ELSE a \div b

\* pub fn start_upload(&self, blob, chunk_size, total_bytes): the Transfer is
\* built, division included, before anything else happens
start_upload(binding, blob, chunk_size, total_bytes, encOk, reply) ==
    IF Div(total_bytes, chunk_size) = -1
    THEN << <<>>, StorePanic("divide by zero") >>
    ELSE LET transfer == Transfer(blob.id, blob.container, chunk_size, total_bytes,
                                  Div(total_bytes, chunk_size))
         IN << Issue(binding, OP_START_UPLOAD, "FileChunk",
                     <<0, blob.container, blob.id, chunk_size, total_bytes, <<>> >>, encOk),
               IF ~encOk THEN FromBoxedError
               ELSE IF reply.ok THEN StoreOk("Transfer", transfer)
               ELSE FromWapcError >>

\* pub fn upload_chunk(&self, transfer, offset, bytes)
upload_chunk_from_start(binding, transfer, offset, bytes, encOk, reply) ==
    << Issue(binding, OP_UPLOAD_CHUNK, "FileChunk",
             <<0, transfer.container, transfer.blob_id, transfer.chunk_size,
               transfer.total_size, bytes>>, encOk),
       IF ~encOk THEN FromBoxedError
       ELSE IF reply.ok THEN StoreOk("Unit", <<>>)
       ELSE FromWapcError >>
upload_chunk(binding, transfer, offset, bytes, encOk, reply) ==
    << Issue(binding, OP_UPLOAD_CHUNK, "FileChunk",
             <<offset, transfer.container, transfer.blob_id, transfer.chunk_size,
               transfer.total_size, bytes>>, encOk),
       IF ~encOk THEN FromBoxedError
       ELSE IF reply.ok THEN StoreOk("Unit", <<>>)
       ELSE FromWapcError >>

\* pub fn start_download(&self, blob, chunk_size)
start_download(binding, blob, chunk_size, encOk, reply) ==
    IF Div(blob.byte_size, chunk_size) = -1
    THEN << <<>>, StorePanic("divide by zero") >>
    ELSE LET transfer == Transfer(blob.id, blob.container, chunk_size, blob.byte_size,
                                  Div(blob.byte_size, chunk_size))
         IN << Issue(binding, OP_START_DOWNLOAD, "StreamRequest",
                     <<blob.container, blob.id, chunk_size>>, encOk),
               IF ~encOk THEN FromBoxedError
               ELSE IF reply.ok THEN StoreOk("Transfer", transfer)
               ELSE FromWapcError >>

\* pub fn host(binding: &str) -> ObjectStoreHostBinding: the `binding` field
ObjectStoreHost(binding) == binding

\* pub fn default() -> ObjectStoreHostBinding: the `binding` field
ObjectStoreDefault == DefaultBinding

NoStore == [inst |-> NoInst, op |-> "none", args |-> <<>>, encOk |-> TRUE,
            reply |-> ReplyErr, result |-> StoreErr("None")]

\* an instance comes into being through host(binding) ...
StoreHost ==
    \E i \in Insts, binding \in StoreBindings :
        /\ objs[i] = NoInst
        /\ objs' = [objs EXCEPT ![i] = ObjectStoreHost(binding)]
        /\ ctorArg' = [ctorArg EXCEPT ![i] = binding]
        /\ UNCHANGED <<storeWire, lastStore, dispatchVars, loggerVars>>

\* ... or through default()
StoreDefault ==
    \E i \in Insts :
        /\ objs[i] = NoInst
        /\ objs' = [objs EXCEPT ![i] = ObjectStoreDefault]
        /\ ctorArg' = [ctorArg EXCEPT ![i] = DefaultBinding]
        /\ UNCHANGED <<storeWire, lastStore, dispatchVars, loggerVars>>

\* one invocation of an operation on instance i: the calls it issued, the
\* reply it received (if it issued a call) and what it returned
Invoke(i, op, args, encOk, reply, out) ==
    /\ objs[i] # NoInst
    /\ storeWire' = out[1]
    /\ lastStore' = [inst |-> i, op |-> op, args |-> args, encOk |-> encOk,
                     reply |-> IF Len(out[1]) = 0 THEN ReplyErr ELSE reply,
                     result |-> out[2]]
    /\ UNCHANGED <<objs, ctorArg, dispatchVars, loggerVars>>

CreateContainer ==
    \E i \in Insts, name \in Containers, encOk \in BOOLEAN, reply \in DecodedReplies :
        Invoke(i, "create_container", <<name>>, encOk, reply,
               create_container(objs[i], name, encOk, reply))

RemoveContainer ==
    \E i \in Insts, name \in Containers, encOk \in BOOLEAN, reply \in DroppedReplies :
        Invoke(i, "remove_container", <<name>>, encOk, reply,
               remove_container(objs[i], name, encOk, reply))

RemoveObject ==
    \E i \in Insts, name \in ObjectIds, container \in Containers,
       encOk \in BOOLEAN, reply \in DroppedReplies :
        Invoke(i, "remove_object", <<name, container>>, encOk, reply,
               remove_object(objs[i], name, container, encOk, reply))

ListObjects ==
    \E i \in Insts, container \in Containers, encOk \in BOOLEAN, reply \in DecodedReplies :
        Invoke(i, "list_objects", <<container>>, encOk, reply,
               list_objects(objs[i], container, encOk, reply))

GetBlobInfo ==
    \E i \in Insts, container \in Containers, id \in ObjectIds,
       encOk \in BOOLEAN, reply \in DecodedReplies :
        Invoke(i, "get_blob_info", <<container, id>>, encOk, reply,
               get_blob_info(objs[i], container, id, encOk, reply))

StartUpload ==
    \E i \in Insts, id \in ObjectIds, container \in Containers,
       chunk_size \in ChunkSizes, total_bytes \in TotalSizes,
       encOk \in BOOLEAN, reply \in StartReplies :
        Invoke(i, "start_upload", <<Blob(id, container, 0), chunk_size, total_bytes>>,
               encOk, reply,
               start_upload(objs[i], Blob(id, container, 0), chunk_size, total_bytes,
                            encOk, reply))

\* the Transfers a caller may hold when it uploads a chunk
Transfers == {Transfer("obj", "c1", 3, 10, 3), Transfer("obj2", "c2", 2, 9, 4)}

UploadChunk ==
    \E i \in Insts, transfer \in Transfers, offset \in ChunkSizes,
       bytes \in {<<>>, <<1, 2, 3>>}, encOk \in BOOLEAN, reply \in DroppedReplies :
        Invoke(i, "upload_chunk", <<transfer, offset, bytes>>, encOk, reply,
               upload_chunk(objs[i], transfer, offset, bytes, encOk, reply))

StartDownload ==
    \E i \in Insts, id \in ObjectIds, container \in Containers,
       chunk_size \in ChunkSizes, byte_size \in TotalSizes,
       encOk \in BOOLEAN, reply \in DroppedReplies :
        Invoke(i, "start_download", <<Blob(id, container, byte_size), chunk_size>>,
               encOk, reply,
               start_download(objs[i], Blob(id, container, byte_size), chunk_size,
                              encOk, reply))

(***************************************************************************)
(* The specifications.                                                     *)
(***************************************************************************)
\* the arms of the example in the crate documentation (lib.rs 31)
ExampleTable == ArmsOf(<<"OpA", "OpB">>)

InitState ==
    /\ dispatches = 0
    /\ ctxCreated = 0
    /\ lastDispatch = NoDispatch
    /\ CURRENT_BINDING = DefaultBinding
    /\ readers = 0
    /\ recentSwitch = DefaultBinding
    /\ pendingLog = NoCall
    /\ logWire = <<>>
    /\ lastLog = NoLog
    /\ objs = [i \in Insts |-> NoInst]
    /\ ctorArg = [i \in Insts |-> NoInst]
    /\ storeWire = <<>>
    /\ lastStore = NoStore

\* an actor is built with one actor_handlers! invocation
Init == table \in Tables /\ InitState

Dispatch ==
    \E operation \in Ops \cup {Unregistered}, msg \in Msgs, ret \in HandlerReturns :
        HandleWapc(operation, msg, ret)

SwitchHost == \E binding \in NamedBindings : LoggerHost(binding)

Log == \E api \in LogApis, level \in ERROR..TRACE, encOk \in BOOLEAN : LogIssue(api, level, encOk)

HostReplies == \E reply \in {ReplyOk(<<>>), ReplyErr} : LogReturn(reply)

Reenter ==
    \E binding \in NamedBindings \cup {DefaultBinding}, outcome \in WriteWhileReading :
        ReentrantSwitch(binding, outcome)

DispatchNext == Dispatch

LoggerNext ==
    \/ SwitchHost
    \/ LoggerDefault
    \/ Log
    \/ HostReplies
    \/ Reenter
    \/ Dispatch

StoreNext ==
    \/ StoreHost
    \/ StoreDefault
    \/ CreateContainer
    \/ RemoveContainer
    \/ RemoveObject
    \/ ListObjects
    \/ GetBlobInfo
    \/ StartUpload
    \/ UploadChunk
    \/ StartDownload

Next == DispatchNext \/ LoggerNext \/ StoreNext

\* the whole actor
Spec == Init /\ [][Next]_vars

\* the entry point alone, over every table of arms
DispatchSpec == Init /\ [][DispatchNext]_vars

\* the documented actor: the arms of the example, everything else as built
ExampleInit == table = ExampleTable /\ InitState

\* the logger inside the documented actor
LoggerSpec == ExampleInit /\ [][LoggerNext]_vars

\* the object store facade inside the documented actor
StoreSpec == ExampleInit /\ [][StoreNext]_vars

(***************************************************************************)
(* Properties of the inbound entry point (DispatchSpec).                   *)
(***************************************************************************)
\* the arms that name `operation`
ArmsFor(operation) == {i \in 1..Len(table) : table[i].op = operation}
RegisteredOps == {table[i].op : i \in 1..Len(table)}
Dispatched == lastDispatch.op # ""
Decodes == deserialize("Request", lastDispatch.msg).ok

\* C1: an operation with no registered handler gives an error of the
\* bad-dispatch kind that carries the attempted operation name, and no handler
\* is invoked.
C1_BadDispatchCarriesOperation ==
    (Dispatched /\ ArmsFor(lastDispatch.op) = {}) =>
        /\ lastDispatch.result.tag = "Err"
        /\ lastDispatch.result.kind = "BadDispatch"
        /\ lastDispatch.result.name = lastDispatch.op
        /\ lastDispatch.invoked = <<>>

\* the result of the entry point is what the one invoked handler returned
ResultIsHandlers ==
    /\ Len(lastDispatch.invoked) = 1
    /\ \E i \in ArmsFor(lastDispatch.op) : lastDispatch.invoked[1].handler = table[i].handler
    /\ lastDispatch.result.tag = lastDispatch.invoked[1].ret.tag
    /\ lastDispatch.result.kind = lastDispatch.invoked[1].ret.kind
    /\ lastDispatch.result.bytes = lastDispatch.invoked[1].ret.bytes
    /\ lastDispatch.result.name = lastDispatch.invoked[1].ret.name

\* C2 as stated: with three or more operations registered, a call whose
\* operation is registered invokes that operation's handler and no other,
\* exactly once, and returns that handler's bytes or error.
C2_RegisteredOperationInvokesHandler ==
    (Dispatched /\ Cardinality(RegisteredOps) >= 3 /\ lastDispatch.op \in RegisteredOps)
        => ResultIsHandlers

\* C2 amended: the same, for a call whose payload decodes into the handler's
\* request type.
C2_DecodedRequestInvokesHandler ==
    (Dispatched /\ Cardinality(RegisteredOps) >= 3 /\ lastDispatch.op \in RegisteredOps
        /\ Decodes)
        => ResultIsHandlers

\* C2 witness: three operations registered, the call reached the handler of a
\* registered one and the handler failed.
C2_Witness ==
    /\ Cardinality(RegisteredOps) >= 3
    /\ lastDispatch.op = "OpB"
    /\ Len(lastDispatch.invoked) = 1
    /\ lastDispatch.result.kind = "HandlerError"

Smallest(S) == CHOOSE i \in S : \A j \in S : i <= j
Largest(S) == CHOOSE i \in S : \A j \in S : j <= i

\* the orders in which the arms of `table` could have been written
ArmOrders == {f \in [1..Len(table) -> 1..Len(table)] :
                    \A i, j \in 1..Len(table) : f[i] = f[j] => i = j}
Permuted(f) == [i \in 1..Len(table) |-> table[f[i]]]

\* the handler a table of arms routes `operation` to, "" for the wildcard arm
RoutedTo(arms, operation) ==
    LET i == MatchArm(arms, operation, 1) IN IF i = 0 THEN "" ELSE arms[i].handler

\* operations registered once are routed alike however the arms are ordered
OrderIrrelevant ==
    \A f \in ArmOrders : \A o \in RegisteredOps :
        Cardinality(ArmsFor(o)) = 1 => RoutedTo(Permuted(f), o) = RoutedTo(table, o)

\* C10 as stated: of two handlers registered for the same operation the one
\* registered last is called, and the order of registration does not matter
\* for operations registered once.
C10_LastRegistrationWins ==
    /\ (Dispatched /\ lastDispatch.invoked # <<>>) =>
            lastDispatch.invoked[1].handler = table[Largest(ArmsFor(lastDispatch.op))].handler
    /\ OrderIrrelevant

\* C10 amended: of two handlers registered for the same operation the one
\* registered first is called, and the order of registration does not matter
\* for operations registered once.
C10_FirstRegistrationWins ==
    /\ (Dispatched /\ lastDispatch.invoked # <<>>) =>
            lastDispatch.invoked[1].handler = table[Smallest(ArmsFor(lastDispatch.op))].handler
    /\ OrderIrrelevant

\* C10 witness: an operation registered twice was dispatched and a handler ran.
C10_Witness ==
    /\ Dispatched
    /\ Cardinality(ArmsFor(lastDispatch.op)) = 2
    /\ Len(table) = 3
    /\ Len(lastDispatch.invoked) = 1
    /\ lastDispatch.invoked[1].handler = table[Smallest(ArmsFor(lastDispatch.op))].handler
    /\ lastDispatch.invoked[1].handler # table[Largest(ArmsFor(lastDispatch.op))].handler

(***************************************************************************)
(* Properties of the logger (LoggerSpec).                                  *)
(***************************************************************************)
\* C3: every log call, through the methods or the macro path, passes to the
\* transport the binding set by the most recent host(name) / default()
\* ("default" before any switch), and the stored binding is that one in every
\* state, whatever inbound dispatches happen in between.
C3_LogUsesMostRecentBinding ==
    /\ CURRENT_BINDING = recentSwitch
    /\ pendingLog.api # "none" =>
            /\ pendingLog.binding = recentSwitch
            /\ Len(logWire) = 1
            /\ logWire[1].binding = recentSwitch
            /\ logWire[1].capid = CAPID_LOGGING

\* C3 witness: a log call went out under b1; after a second switch and an
\* inbound dispatch a macro log call is out under b2.
C3_Witness ==
    /\ lastLog.sent
    /\ lastLog.binding = "b1"
    /\ dispatches >= 1
    /\ pendingLog.api = "macro"
    /\ pendingLog.binding = "b2"
    /\ logWire[1].binding = "b2"

\* C9: a log/error/warn/info/debug/trace call whose transport call the host
\* rejects returns an error of the transport-failure kind.
C9_LogSurfacesTransportFailure ==
    (lastLog.api \in LogApis \ {"macro"} /\ lastLog.sent /\ ~lastLog.reply.ok) =>
        /\ lastLog.result.tag = "Err"
        /\ lastLog.result.kind = "WapcError"

(***************************************************************************)
(* Properties of the object store facade (StoreSpec).                      *)
(***************************************************************************)
Invoked(op) == lastStore.op = op
Issued == Len(storeWire) > 0

\* the type each operation decodes its response into
ResponseType(op) ==
    CASE op = "create_container" -> "Container"
      [] op = "list_objects" -> "BlobList"
      [] op = "get_blob_info" -> "Blob"
      [] OTHER -> ""

\* C4: for create_container, list_objects and get_blob_info a rejected
\* transport call gives an error of the transport-failure kind and a response
\* that cannot be decoded gives an error of the serialization-failure kind.
C4_FailuresSurfaceByKind ==
    (lastStore.op \in {"create_container", "list_objects", "get_blob_info"} /\ Issued) =>
        /\ ~lastStore.reply.ok =>
                (lastStore.result.tag = "Err" /\ lastStore.result.kind = "WapcError")
        /\ (lastStore.reply.ok
                /\ ~deserialize(ResponseType(lastStore.op), lastStore.reply.bytes).ok) =>
                (lastStore.result.tag = "Err" /\ lastStore.result.kind = "JsonMarshaling")

\* C5: when the host call succeeds and the response decodes to a blob,
\* get_blob_info returns Ok(None) for an empty id and Ok(Some(blob)) with the
\* decoded id, container and byte_size otherwise.
C5_EmptyIdIsNone ==
    (Invoked("get_blob_info") /\ Issued /\ lastStore.reply.ok
        /\ deserialize("Blob", lastStore.reply.bytes).ok) =>
        LET b == Tail(lastStore.reply.bytes)
        IN /\ lastStore.result.tag = "Ok"
           /\ IF b[1] = ""
              THEN lastStore.result.kind = "None"
              ELSE /\ lastStore.result.kind = "Some"
                   /\ lastStore.result.val = b

\* C5 witness: the host answered with a blob whose id is empty and the caller
\* got Ok(None).
C5_Witness ==
    /\ Invoked("get_blob_info")
    /\ lastStore.reply.ok
    /\ lastStore.reply.bytes = serialize("Blob", <<"", "", 0>>)
    /\ lastStore.result.tag = "Ok"
    /\ lastStore.result.kind = "None"

\* the total size a start call describes
TotalOf(call) ==
    IF call.op = "start_upload" THEN call.args[3] ELSE call.args[1].byte_size

\* C6: the Transfer a successful start_upload / start_download returns has
\* blob_id and container of the blob, the requested chunk_size and total size,
\* and total_chunks = floor(total_size / chunk_size); (10,3) and (9,3) give 3.
C6_TransferIsFloorDivision ==
    (lastStore.op \in {"start_upload", "start_download"} /\ lastStore.result.tag = "Ok") =>
        LET t == lastStore.result.val
            blob == lastStore.args[1]
            chunk == lastStore.args[2]
            total == TotalOf(lastStore)
        IN /\ chunk > 0
           /\ t.blob_id = blob.id
           /\ t.container = blob.container
           /\ t.chunk_size = chunk
           /\ t.total_size = total
           /\ t.total_chunks * chunk <= total
           /\ total < (t.total_chunks + 1) * chunk
           /\ (chunk = 3 /\ total \in {9, 10}) => t.total_chunks = 3

\* C6 witness: start_upload of 10 bytes in chunks of 3 succeeded with 3 chunks.
C6_Witness ==
    /\ Invoked("start_upload")
    /\ lastStore.args[2] = 3
    /\ lastStore.args[3] = 10
    /\ lastStore.result.tag = "Ok"
    /\ lastStore.result.val.total_chunks = 3

\* C7: an instance keeps the binding it was constructed with, every transport
\* call it issues carries that binding and the blob store capability id, and
\* no call changes the binding of any instance.
C7_InstanceKeepsItsBinding ==
    /\ \A i \in Insts : objs[i] = ctorArg[i]
    /\ \A k \in 1..Len(storeWire) :
            /\ storeWire[k].binding = ctorArg[lastStore.inst]
            /\ storeWire[k].capid = CAPID_BLOBSTORE

\* C7 witness: two instances with different bindings, and a call that went
\* out through the one bound to b1.
C7_Witness ==
    /\ ctorArg["s1"] = "b1"
    /\ ctorArg["s2"] = DefaultBinding
    /\ lastStore.inst = "s1"
    /\ Issued
    /\ storeWire[1].binding = "b1"

\* C8: every invocation issues exactly one transport call, none only when the
\* request could not be encoded; a failed call is not issued again.
C8_OneCallPerInvocation ==
    lastStore.op # "none" =>
        Len(storeWire) = (IF lastStore.encOk THEN 1 ELSE 0)

\* C11: upload_chunk issues one transport call whose request carries the
\* caller's offset as sequence number and the id, container, chunk_size and
\* total size of the given Transfer; request and outcome are determined by the
\* call's own arguments and the host's reply, in every reachable state, so
\* whatever chunk calls succeeded or failed before.
C11_ChunkCallIsStateless ==
    (Invoked("upload_chunk") /\ lastStore.encOk) =>
        LET t == lastStore.args[1]
            req == deserialize("FileChunk", storeWire[1].msg)
        IN /\ Len(storeWire) = 1
           /\ storeWire[1].op = OP_UPLOAD_CHUNK
           /\ req.ok
           /\ req.val[1] = lastStore.args[2]
           /\ req.val[2] = t.container
           /\ req.val[3] = t.blob_id
           /\ req.val[4] = t.chunk_size
           /\ req.val[5] = t.total_size
           /\ req.val[6] = lastStore.args[3]
           /\ lastStore.result.tag = (IF lastStore.reply.ok THEN "Ok" ELSE "Err")
           /\ ~lastStore.reply.ok => lastStore.result.kind = "WapcError"

\* C11 witness: a chunk call at offset 2 of the second Transfer was rejected
\* by the host and its request carried sequence number 2.
C11_Witness ==
    /\ Invoked("upload_chunk")
    /\ lastStore.args[1].blob_id = "obj2"
    /\ lastStore.args[2] = 2
    /\ Len(storeWire) = 1
    /\ storeWire[1].msg[2] = 2
    /\ lastStore.result.tag = "Err"

\* C12: when the provider answers start_upload with a Transfer, the Transfer
\* start_upload returns carries the chunk size of the provider's answer.
C12_TransferCarriesProviderChunkSize ==
    (Invoked("start_upload") /\ Issued /\ lastStore.reply.ok
        /\ deserialize("Transfer", lastStore.reply.bytes).ok) =>
        /\ lastStore.result.tag = "Ok"
        /\ lastStore.result.val.chunk_size = deserialize("Transfer", lastStore.reply.bytes).val[3]

\* C13: from the moment a log call has read the binding until its transport
\* call returns, its read guard is held and the stored binding is the one it
\* passed to the transport: no switch, reentrant ones included, completes.
C13_BindingGuardedDuringLogCall ==
    pendingLog.api # "none" =>
        /\ readers >= 1
        /\ pendingLog.binding = CURRENT_BINDING
        /\ Len(logWire) = 1
        /\ logWire[1].binding = CURRENT_BINDING

\* C13 witness: while a log call under b1 was blocked in the transport a
\* switch was attempted and did not complete; the stored binding is still b1.
C13_Witness ==
    /\ pendingLog.api = "info"
    /\ pendingLog.reentry = "panic"
    /\ pendingLog.binding = "b1"
    /\ CURRENT_BINDING = "b1"
    /\ readers = 1

\* C14: start_upload and start_download called with chunk_size = 0 issue no
\* transport call and return no Transfer: the division panics first.
C14_ZeroChunkSizePanics ==
    (lastStore.op \in {"start_upload", "start_download"} /\ lastStore.args[2] = 0) =>
        /\ storeWire = <<>>
        /\ lastStore.result.tag = "Panic"
        /\ lastStore.result.kind = "divide by zero"

\* C14 witness: start_download of a 10 byte blob with chunk_size 0, by an
\* actor whose request would have encoded, ended in the panic.
C14_Witness ==
    /\ Invoked("start_download")
    /\ lastStore.args[1].byte_size = 10
    /\ lastStore.args[2] = 0
    /\ lastStore.encOk
    /\ lastStore.result.tag = "Panic"
    /\ storeWire = <<>>

\* C15: when the operation has an arm but the payload does not decode, no
\* handler is invoked and the entry point returns the decode error; every
\* invocation, that one and one of an unregistered operation included, has
\* created a Capabilities Context of its own.
C15_UndecodableRequestSkipsHandler ==
    /\ ctxCreated = dispatches
    /\ Dispatched =>
            /\ lastDispatch.ctx = dispatches
            /\ (ArmsFor(lastDispatch.op) # {} /\ ~Decodes) =>
                    /\ lastDispatch.invoked = <<>>
                    /\ lastDispatch.result.tag = "Err"
                    /\ lastDispatch.result.kind = "DecodeError"

\* C15 witness: the second invocation named a registered operation with a
\* payload that does not decode, and was given the second context.
C15_Witness ==
    /\ dispatches = 2
    /\ lastDispatch.op \in RegisteredOps
    /\ lastDispatch.msg = Corrupt
    /\ lastDispatch.ctx = 2
    /\ lastDispatch.invoked = <<>>
    /\ lastDispatch.result.kind = "DecodeError"

====
